---- MODULE Spec2Model ----
(***************************************************************************)
(* Health status classification (HealthAnalysisService), the monitoring    *)
(* session (HealthMonitoringService) and the parts of SecurityService the  *)
(* monitoring session consults.                                            *)
(*                                                                         *)
(* Temperatures are held in tenths of a degree Celsius (36.1 is 361), so   *)
(* every comparison of the source against a one-decimal literal is an      *)
(* integer comparison here.                                                *)
(***************************************************************************)
EXTENDS Integers, Sequences, FiniteSets, TLC

VARIABLES
    \* HealthAnalysisService: one call of analyzeHealthData
    reading,            \* the HealthData argument
    svmOutcome,         \* what this.svm.predict does for it
    analysisResult,     \* the returned object, or the pending marker
    \* HealthMonitoringService fields
    userId, healthHistory, alerts, monitoringConfig,
    \* SecurityService fields
    currentSession, currentUser,
    \* environment
    now,                \* Date.now()
    storage,            \* AsyncStorage, per health_monitoring_data_<user> key
    pendingWrites,      \* setItem calls issued and not yet completed
    pendingLoads,       \* loadFromStorage calls suspended at their await
    \* observation
    ret,                \* what the most recent step returned, threw and logged
    afterLogout,        \* TRUE from handleLogout until the next setUserId
    savedUnder,         \* per user id, the entries, alerts and configs made under it
    steps,              \* number of steps taken
    \* PatientDataContext state
    patient,            \* the patient of the patients list
    currentPatient,     \* id of the current patient, or NoPatient
    contextAlerts,      \* the alerts list of the context
    \* SecurityService: login, lockout, the stored session, the security log
    clock,              \* Date.now(), counted in lockout durations
    failedAttempts,     \* per email, the count of failures (0: no entry)
    lockedAccounts,     \* per email, the lock expiration, or NoLock
    sessionItem,        \* AsyncStorage 'session'
    securityLogs,       \* AsyncStorage 'security_logs'
    pendingLogins,      \* login calls suspended at an await
    pendingStores,      \* storeSecurityLog calls suspended at an await
    pendingRemoves,     \* removeItem('session') calls in flight
    sessionLoad         \* the loadSession call of the constructor

analysisVars == <<reading, svmOutcome, analysisResult>>
monVars == <<userId, healthHistory, alerts, monitoringConfig, currentSession,
             currentUser, now, storage, pendingWrites, pendingLoads, ret,
             afterLogout, savedUnder>>
liveVars == <<patient, currentPatient, contextAlerts>>
secVars == <<clock, failedAttempts, lockedAccounts, sessionItem, securityLogs,
             pendingLogins, pendingStores, pendingRemoves, sessionLoad>>
vars == <<analysisVars, monVars, steps, liveVars, secVars>>

----------------------------------------------------------------------------
(* HealthStatus and its severity order                                      *)

HealthStatus == {"normal", "warning", "critical"}

severity == [normal |-> 0, warning |-> 1, critical |-> 2]

isMorSevere_reversed(status1, status2) == severity[status1] < severity[status2]

isMorSevere(status1, status2) == severity[status1] > severity[status2]

----------------------------------------------------------------------------
(* HealthAnalysisService                                                    *)

NORMAL_RANGES ==
    [heartRate              |-> [min |-> 60,  max |-> 100],
     bloodPressureSystolic  |-> [min |-> 90,  max |-> 129],
     bloodPressureDiastolic |-> [min |-> 60,  max |-> 84],
     oxygenLevel            |-> [min |-> 95,  max |-> 100],
     temperature            |-> [min |-> 361, max |-> 372]]

CRITICAL_THRESHOLDS ==
    [bloodPressureSystolic  |-> [min |-> 70,  max |-> 180],
     bloodPressureDiastolic |-> [min |-> 40,  max |-> 120],
     heartRate              |-> [min |-> 40,  max |-> 140],
     oxygenLevel            |-> [min |-> 90,  max |-> 100],
     temperature            |-> [min |-> 350, max |-> 385]]

MetricNames == {"heartRate", "bloodPressureSystolic", "bloodPressureDiastolic",
                "oxygenLevel", "temperature"}

getMetricStatus_exclusive(value, normalRange, criticalRange) ==
    IF value > normalRange.min /\ value < normalRange.max
    THEN "normal"
    ELSE IF value < criticalRange.min \/ value > criticalRange.max
         THEN "critical"
         ELSE "warning"

getMetricStatus(value, normalRange, criticalRange) ==
    IF value >= normalRange.min /\ value <= normalRange.max
    THEN "normal"
    ELSE IF value < criticalRange.min \/ value > criticalRange.max
         THEN "critical"
         ELSE "warning"

analyzeIndividualMetrics(data) ==
    [m \in MetricNames |->
        [value  |-> data[m],
         status |-> getMetricStatus(data[m], NORMAL_RANGES[m],
                                    CRITICAL_THRESHOLDS[m])]]

getWorstMetricStatus(metrics) ==
    IF \E m \in DOMAIN metrics : metrics[m].status = "critical"
    THEN "critical"
    ELSE IF \E m \in DOMAIN metrics : metrics[m].status = "warning"
         THEN "warning"
         ELSE "normal"

\* What this.svm.predict([features])[0] can do: return a label, return
\* something that is no label, or throw.
SvmOutcomes == {"0", "1", "2", "other", "throws"}

\* this.svm.predict([features])[0]
Predict(outcome) ==
    [threw |-> outcome = "throws", value |-> IF outcome = "throws" THEN "" ELSE outcome]

TryPredict_uncaught(outcome) == Predict(outcome)

\* let prediction = 0; try { prediction = predict(...)[0] } catch { log }
TryPredict(outcome) ==
    LET r == Predict(outcome)
    IN IF r.threw THEN [threw |-> FALSE, value |-> "0"] ELSE r

mapPredictionToStatus(prediction) ==
    CASE prediction = "0" -> "normal"
      [] prediction = "1" -> "warning"
      [] prediction = "2" -> "critical"
      [] OTHER            -> "normal"

BpTier_above(bpSystolic, bpDiastolic) ==
    IF bpSystolic > 180 \/ bpDiastolic > 120 THEN "hypertensive crisis"
    ELSE IF bpSystolic > 160 \/ bpDiastolic > 100 THEN "stage 2 hypertension"
    ELSE IF bpSystolic > 140 \/ bpDiastolic > 90 THEN "stage 1 hypertension"
    ELSE IF bpSystolic > 130 \/ bpDiastolic > 85 THEN "elevated"
    ELSE IF bpSystolic < 90 \/ bpDiastolic < 60 THEN "lower than normal"
    ELSE "within normal range"

BpTier_lowFirst(bpSystolic, bpDiastolic) ==
    IF bpSystolic < 90 \/ bpDiastolic < 60 THEN "lower than normal"
    ELSE IF bpSystolic >= 180 \/ bpDiastolic >= 120 THEN "hypertensive crisis"
    ELSE IF bpSystolic >= 160 \/ bpDiastolic >= 100 THEN "stage 2 hypertension"
    ELSE IF bpSystolic >= 140 \/ bpDiastolic >= 90 THEN "stage 1 hypertension"
    ELSE IF bpSystolic >= 130 \/ bpDiastolic >= 85 THEN "elevated"
    ELSE "within normal range"

BpTier(bpSystolic, bpDiastolic) ==
    IF bpSystolic >= 180 \/ bpDiastolic >= 120 THEN "hypertensive crisis"
    ELSE IF bpSystolic >= 160 \/ bpDiastolic >= 100 THEN "stage 2 hypertension"
    ELSE IF bpSystolic >= 140 \/ bpDiastolic >= 90 THEN "stage 1 hypertension"
    ELSE IF bpSystolic >= 130 \/ bpDiastolic >= 85 THEN "elevated"
    ELSE IF bpSystolic < 90 \/ bpDiastolic < 60 THEN "lower than normal"
    ELSE "within normal range"

HrTier(hr) ==
    IF hr > 100 THEN "tachycardia"
    ELSE IF hr < 60 THEN "bradycardia"
    ELSE "within normal range"

TempTier(temp) ==
    IF temp >= 383 THEN "significant fever"
    ELSE IF temp >= 373 THEN "mild fever"
    ELSE IF temp <= 355 THEN "below normal"
    ELSE "within normal range"

O2Tier(o2) ==
    IF o2 < 90 THEN "critically low"
    ELSE IF o2 < 95 THEN "lower than optimal"
    ELSE "within normal range"

\* The message is the four sentences, each the chosen wording with the
\* values it prints, between a heading and a closing picked by overallStatus.
generateAnalysisMessage(overallStatus, metrics, data) ==
    [heading |-> CASE overallStatus = "critical" -> "URGENT HEALTH ALERT"
                   [] overallStatus = "warning"  -> "HEALTH WARNING"
                   [] OTHER                      -> "HEALTH STATUS",
     bp   |-> <<BpTier(data.bloodPressureSystolic, data.bloodPressureDiastolic),
                data.bloodPressureSystolic, data.bloodPressureDiastolic>>,
     hr   |-> <<HrTier(data.heartRate), data.heartRate>>,
     temp |-> <<TempTier(data.temperature), data.temperature>>,
     o2   |-> <<O2Tier(data.oxygenLevel), data.oxygenLevel>>]

analyzeHealthData(data, outcome) ==
    LET metricAnalysis == analyzeIndividualMetrics(data)
        hasCriticalMetrics ==
            \E m \in DOMAIN metricAnalysis : metricAnalysis[m].status = "critical"
        prediction == TryPredict(outcome)
        voted == mapPredictionToStatus(prediction.value)
        worstIndividualStatus == getWorstMetricStatus(metricAnalysis)
        status ==
            IF hasCriticalMetrics THEN "critical"
            ELSE IF isMorSevere(worstIndividualStatus, voted)
                 THEN worstIndividualStatus
                 ELSE voted
    IN [done     |-> TRUE,
        threw    |-> prediction.threw,
        status   |-> status,
        analysis |-> generateAnalysisMessage(status, metricAnalysis, data),
        metrics  |-> metricAnalysis]

----------------------------------------------------------------------------
(* Bounds                                                                   *)

MaxTime == 1
MaxHistory == 2
MaxPendingWrites == 2
MaxPendingLoads == 2
MaxSteps == 6
MaxLiveUpdates == 3
MaxAlertLog == 101
MaxMetricsSteps == 4
MaxClock == 2
MaxFailedAttempts == 6
MaxPendingLogins == 2
MaxPendingStores == 2
MaxPendingRemoves == 1
MaxSecuritySteps == 7

----------------------------------------------------------------------------
(* SecurityService, as far as the monitoring session consults it           *)

\* this.userId is string | null; the users that log in on the device
NoUser == "null"
Users == {"A", "B"}

\* !this.userId is true of null and of the empty string
HasUser(u) == u # NoUser /\ u # ""

\* 24 * 60 * 60 * 1000 ms; the clock `now` counts days
TOKEN_DURATION == 1

SECRET_KEY == "yTz9AvZ3bnM5kL8p"

NoSession == [present |-> FALSE, userId |-> NoUser, expiresAt |-> 0]

createSession(u) ==
    [present |-> TRUE, userId |-> u, expiresAt |-> now + TOKEN_DURATION]

isAuthenticated_noExpiry == currentSession.present

isAuthenticated ==
    IF ~currentSession.present THEN FALSE ELSE currentSession.expiresAt > now

\* logSecurityEvent: the log it hands to storeSecurityLog. Only warning and
\* critical logs are stored.
NoEvent == [action |-> "", severity |-> "info", userId |-> NoUser]

logSecurityEvent(action, sev) ==
    IF sev = "critical" \/ sev = "warning"
    THEN [action |-> action, severity |-> sev, userId |-> currentUser]
    ELSE NoEvent

\* JSON.stringify turns a Date into its ISO string; loadFromStorage turns
\* the string back with new Date(...)
Date(ms) == <<"Date", ms>>
toISOString(d) == <<"ISO", d[2]>>
newDate(iso) == <<"Date", iso[2]>>

StringifyItems(items) ==
    [i \in 1..Len(items) |->
        [items[i] EXCEPT !.timestamp = toISOString(items[i].timestamp)]]

ReviveItems(items) ==
    [i \in 1..Len(items) |->
        [items[i] EXCEPT !.timestamp = newDate(items[i].timestamp)]]

JSONstringify(dataToSave) ==
    [config  |-> dataToSave.config,
     history |-> StringifyItems(dataToSave.history),
     alerts  |-> StringifyItems(dataToSave.alerts)]

encryptHealthData(data) == [cipher |-> "AES", key |-> SECRET_KEY, plain |-> data]

\* decryptHealthData: AES.decrypt, then JSON.parse of the plain text
decryptHealthData(encryptedData) == encryptedData.plain

\* AES.decrypt under another key yields bytes that are no UTF-8 JSON text:
\* decryptHealthData logs 'Decryption error' and throws
decryptThrows(encryptedData) ==
    encryptedData.cipher # "AES" \/ encryptedData.key # SECRET_KEY

----------------------------------------------------------------------------
(* HealthMonitoringService                                                  *)

DefaultConfig ==
    [isActive       |-> TRUE,
     schedule       |-> "daily",
     alertThreshold |-> "warning",
     metrics        |-> [heartRate |-> TRUE, bloodPressure |-> TRUE,
                         temperature |-> TRUE, oxygenLevel |-> TRUE,
                         weight |-> FALSE]]

StorageKey(u) == "health_monitoring_data_" \o u

StorageKeys == {StorageKey(u) : u \in Users}

Abs(x) == IF x < 0 THEN -x ELSE x

\* The monitoring service's own getMetricStatus(value, min, max):
\* deviation = max(|value - min| / min, |value - max| / max) > 0.15
MonitoringGetMetricStatus(value, min, max) ==
    IF value < min \/ value > max
    THEN IF Abs(value - min) * 100 > 15 * min \/ Abs(value - max) * 100 > 15 * max
         THEN "critical"
         ELSE "warning"
    ELSE "normal"

generateAlertMessage(status, data) ==
    CASE status = "critical" -> "URGENT: critical levels"
      [] status = "warning"  -> "ATTENTION: need attention"
      [] OTHER               -> "within normal ranges"

AlertMetricKeys_all(config) ==
    {"heartRate", "bloodPressureSystolic", "bloodPressureDiastolic",
     "temperature", "oxygenLevel"}

\* The keys checkForAlerts puts into the metrics object of a new alert
AlertMetricKeys(config) ==
    (IF config.metrics.heartRate THEN {"heartRate"} ELSE {})
    \cup (IF config.metrics.bloodPressure
          THEN {"bloodPressureSystolic", "bloodPressureDiastolic"} ELSE {})
    \cup (IF config.metrics.temperature THEN {"temperature"} ELSE {})
    \cup (IF config.metrics.oxygenLevel THEN {"oxygenLevel"} ELSE {})

AlertMetricStatus(m, value) ==
    CASE m = "heartRate"              -> MonitoringGetMetricStatus(value, 60, 100)
      [] m = "bloodPressureSystolic"  -> MonitoringGetMetricStatus(value, 90, 120)
      [] m = "bloodPressureDiastolic" -> MonitoringGetMetricStatus(value, 60, 80)
      [] m = "temperature"            -> MonitoringGetMetricStatus(value, 361, 372)
      [] m = "oxygenLevel"            -> MonitoringGetMetricStatus(value, 95, 100)

\* this.healthHistory.push(entry)
PushEntry_unshift(hist, entry) == <<entry>> \o hist

PushEntry(hist, entry) == Append(hist, entry)

\* { data, timestamp: new Date(), status }
HistoryEntry(data, status, t) ==
    [data |-> data, timestamp |-> Date(t), status |-> status]

\* t is Date.now() when the alert is built
NewAlert(config, data, status, t) ==
    [id        |-> ToString(t),
     timestamp |-> Date(t),
     status    |-> status,
     message   |-> generateAlertMessage(status, data),
     metrics   |-> [m \in AlertMetricKeys(config) |->
                       [value |-> data[m], status |-> AlertMetricStatus(m, data[m])]],
     seen      |-> FALSE]

AlertDue_above(config, status) ==
    config.isActive /\ severity[status] > severity[config.alertThreshold]

\* if (!isActive) return; if (severity[status] >= severity[alertThreshold]) ...
AlertDue(config, status) ==
    config.isActive /\ severity[status] >= severity[config.alertThreshold]

\* checkForAlerts without its trailing saveToStorage: the alert list after it
checkForAlerts(al, config, data, status, t) ==
    IF AlertDue(config, status)
    THEN Append(al, NewAlert(config, data, status, t))
    ELSE al

\* saveToStorage up to its await: the setItem call it issues, if any. The
\* blob is built from the fields as they are when the call is made.
saveToStorage(pw, uid, config, hist, al) ==
    IF ~HasUser(uid) THEN pw
    ELSE Append(pw,
           [key   |-> StorageKey(uid),
            value |-> encryptHealthData(
                        [type |-> "storage",
                         data |-> JSONstringify([config |-> config,
                                                 history |-> hist,
                                                 alerts |-> al])])])

\* The outcome of a call as its caller sees it, with the security log it made
Returned(op, threw, value, logged) ==
    [op |-> op, threw |-> threw, value |-> value, logged |-> logged]

\* Steps that return nothing, throw nothing and log nothing
NoReturn == Returned("", FALSE, <<>>, NoEvent)

----------------------------------------------------------------------------
(* Inputs                                                                   *)

HeartRates == {39, 40, 59, 60, 100, 101, 140, 141}
Systolics  == {69, 70, 89, 90, 129, 130, 180, 181}
Diastolics == {39, 40, 59, 60, 84, 85, 120, 121}
Oxygens    == {89, 90, 94, 95, 100, 101}
Temperatures == {349, 350, 360, 361, 372, 373, 385, 386}

HealthData(hr, sys, dia, o2, temp) ==
    [heartRate |-> hr, bloodPressureSystolic |-> sys,
     bloodPressureDiastolic |-> dia, oxygenLevel |-> o2, temperature |-> temp]

AnalysisReadings ==
    {HealthData(hr, sys, dia, o2, temp) :
        hr \in HeartRates, sys \in Systolics, dia \in Diastolics,
        o2 \in Oxygens, temp \in Temperatures}

\* Readings saved to the monitoring session: an all-normal one and the
\* reading of the end-to-end example
NormalReading == HealthData(70, 110, 70, 98, 366)
ExampleReading == HealthData(120, 160, 100, 91, 382)
SavedReadings == {NormalReading, ExampleReading}

\* Blood pressures on both sides of every bound of generateAnalysisMessage,
\* with the other metrics normal
TierSystolics  == {89, 90, 129, 130, 139, 140, 159, 160, 179, 180}
TierDiastolics == {59, 60, 84, 85, 89, 90, 99, 100, 119, 120}

BpReadings ==
    {HealthData(70, sys, dia, 98, 366) : sys \in TierSystolics, dia \in TierDiastolics}

\* The screens save a reading with the status analyzeHealthData gave it
SaveInputs ==
    {<<data, analyzeHealthData(data, outcome).status>> :
        data \in SavedReadings, outcome \in SvmOutcomes}

\* Arguments of updateMonitoringConfig: Partial<HealthMonitoringConfig>
PartialConfigs ==
    {[isActive |-> FALSE], [isActive |-> TRUE],
     [alertThreshold |-> "critical"], [alertThreshold |-> "normal"]}

AlertIds == {ToString(t) : t \in 0..MaxTime} \cup {"unknown"}

----------------------------------------------------------------------------
(* Initial state: both services constructed, nothing stored on the device   *)

NotAnalysed == [done |-> FALSE]

\* What an earlier run of the app left under user A's key: one reading
\* saved at time 0 under the default configuration, and the alert it raised
PreviousHistory == <<HistoryEntry(NormalReading, "warning", 0)>>
PreviousAlerts == <<NewAlert(DefaultConfig, NormalReading, "warning", 0)>>
PreviousItem ==
    saveToStorage(<<>>, "A", DefaultConfig, PreviousHistory, PreviousAlerts)[1].value

\* The same blob as stored by a build of the app with another secret key
UnreadableItem == [PreviousItem EXCEPT !.key = "another key"]

NothingSaved == [history |-> {}, alerts |-> {}]

\* Both services constructed; `items` are the values user A's key may hold
MonitorInitWith(items) ==
    /\ userId = NoUser
    /\ healthHistory = <<>>
    /\ alerts = <<>>
    /\ monitoringConfig = DefaultConfig
    /\ currentSession = NoSession
    /\ currentUser = NoUser
    /\ now = 0
    /\ \E item \in items :
          /\ storage = [k \in StorageKeys |->
                           IF k = StorageKey("A") THEN item ELSE <<>>]
          /\ savedUnder = [u \in Users |->
                             IF u = "A" /\ item # <<>>
                             THEN [history |-> {PreviousHistory[1]},
                                   alerts |-> {PreviousAlerts[1]}]
                             ELSE NothingSaved]
    /\ pendingWrites = <<>>
    /\ pendingLoads = <<>>
    /\ ret = NoReturn
    /\ afterLogout = FALSE
    /\ steps = 0

\* User A may have used the app on the device before; user B has not
MonitorInit == MonitorInitWith({<<>>, <<PreviousItem>>})

\* The accounts registered on the device and the ids of their users
Emails == {"a@mail", "b@mail"}

UserIdOf == [e \in Emails |-> IF e = "a@mail" THEN "A" ELSE "B"]

\* lockedAccounts[email] is undefined
NoLock == -1

LoadSessionDone == [phase |-> "done", session |-> NoSession]

\* The login side of SecurityService at rest: no failures, no locks, nothing
\* stored, loadSession over
SecurityIdle ==
    /\ clock = 0
    /\ failedAttempts = [e \in Emails |-> 0]
    /\ lockedAccounts = [e \in Emails |-> NoLock]
    /\ sessionItem = <<>>
    /\ securityLogs = <<>>
    /\ pendingLogins = <<>>
    /\ pendingStores = <<>>
    /\ pendingRemoves = 0
    /\ sessionLoad = LoadSessionDone

\* initialPatients, initialAlerts and the useState initial values. A blood
\* pressure value "160/95" is held as the pair <<160, 95>>, a temperature
\* in tenths of a degree.
Metric(name, value, status) == [name |-> name, value |-> value, status |-> status]

\* currentPatient is PatientData | null
NoPatient == [id |-> "null"]

initialPatient ==
    [id |-> "101",
     status |-> "critical",
     healthMetrics |-> <<Metric("Blood Pressure", <<160, 95>>, "critical"),
                         Metric("Heart Rate", 88, "normal"),
                         Metric("Blood Sugar", 110, "normal"),
                         Metric("Oxygen Level", 97, "normal"),
                         Metric("Temperature", 986, "normal")>>,
     alerts |-> <<>>]

initialAlerts ==
    <<[patientId |-> "101", message |-> <<"High blood pressure", <<160, 95>>>>,
       status |-> "critical", read |-> FALSE]>>

PatientDataInit ==
    /\ patient = initialPatient
    /\ currentPatient = NoPatient
    /\ contextAlerts = initialAlerts

AnalysisIdle ==
    /\ reading = NormalReading
    /\ svmOutcome = "0"
    /\ analysisResult = NotAnalysed

----------------------------------------------------------------------------
(* HealthAnalysisService.analyzeHealthData on every reading and every      *)
(* behaviour of the learned model                                           *)

AnalysisInit ==
    /\ reading \in AnalysisReadings
    /\ svmOutcome \in SvmOutcomes
    /\ analysisResult = NotAnalysed
    /\ MonitorInit
    /\ storage[StorageKey("A")] = <<>>
    /\ PatientDataInit
    /\ SecurityIdle

AnalyzeHealthData ==
    /\ ~analysisResult.done
    /\ analysisResult' = analyzeHealthData(reading, svmOutcome)
    /\ UNCHANGED <<reading, svmOutcome, monVars, steps, liveVars, secVars>>

AnalysisNext == AnalyzeHealthData

SpecAnalysis == AnalysisInit /\ [][AnalysisNext]_vars

----------------------------------------------------------------------------
(* The monitoring session: public operations                                *)

\* setUserId: this.userId = userId; this.loadFromStorage()
\* loadFromStorage returns at once without a user, else it computes the key
\* and suspends at await AsyncStorage.getItem(storageKey).
StartLoad(pl, uid) ==
    IF ~HasUser(uid) THEN pl
    ELSE Append(pl, [key |-> StorageKey(uid), phase |-> "getItem", item |-> <<>>])

SetUserId(u) ==
    /\ userId' = u
    /\ pendingLoads' = StartLoad(pendingLoads, u)
    /\ Len(pendingLoads') <= MaxPendingLoads
    /\ afterLogout' = FALSE
    /\ ret' = NoReturn
    /\ UNCHANGED <<healthHistory, alerts, monitoringConfig, currentSession,
                   currentUser, now, storage, pendingWrites,
                   savedUnder, analysisVars>>

ClearUserData ==
    /\ userId' = NoUser
    /\ healthHistory' = <<>>
    /\ alerts' = <<>>
    /\ ret' = NoReturn
    /\ UNCHANGED <<monitoringConfig, currentSession, currentUser, now, storage,
                   pendingWrites, pendingLoads, afterLogout,
                   savedUnder, analysisVars>>

\* The guard of saveHealthData, getHealthHistory and getAlerts:
\* if (!this.userId || !securityService.isAuthenticated())
Rejects_and(uid, authenticated) == ~HasUser(uid) /\ ~authenticated

Rejects(uid, authenticated) == ~HasUser(uid) \/ ~authenticated

\* saveHealthData: the guard, the push, saveToStorage, checkForAlerts and the
\* saveToStorage it ends with when it raises an alert
saveHealthData(data, status) ==
    IF Rejects(userId, isAuthenticated)
    THEN /\ ret' = Returned("saveHealthData", TRUE, <<>>,
                            logSecurityEvent("Unauthorized health data save attempt",
                                             "warning"))
         /\ UNCHANGED <<userId, healthHistory, alerts, monitoringConfig,
                        currentSession, currentUser, now, storage, pendingWrites,
                        pendingLoads, afterLogout, savedUnder, analysisVars>>
    ELSE /\ healthHistory' = PushEntry(healthHistory, HistoryEntry(data, status, now))
         /\ alerts' = checkForAlerts(alerts, monitoringConfig, data, status, now)
         /\ savedUnder' =
              [savedUnder EXCEPT
                 ![userId].history = @ \cup {HistoryEntry(data, status, now)},
                 ![userId].alerts = @ \cup {alerts'[i] : i \in (Len(alerts) + 1)..Len(alerts')}]
         /\ pendingWrites' =
              LET first == saveToStorage(pendingWrites, userId, monitoringConfig,
                                         healthHistory', alerts)
              IN IF AlertDue(monitoringConfig, status)
                 THEN saveToStorage(first, userId, monitoringConfig,
                                    healthHistory', alerts')
                 ELSE first
         /\ ret' = Returned("saveHealthData", FALSE, <<>>, NoEvent)
         /\ UNCHANGED <<userId, monitoringConfig, currentSession, currentUser,
                        now, storage, pendingLoads, afterLogout, analysisVars>>

\* saveHealthData within the bounds of the session model
SaveHealthData(data, status) ==
    /\ Rejects(userId, isAuthenticated) \/ Len(healthHistory) < MaxHistory
    /\ saveHealthData(data, status)
    /\ Len(pendingWrites') <= MaxPendingWrites

GetHealthHistory ==
    /\ IF Rejects(userId, isAuthenticated)
       THEN ret' = Returned("getHealthHistory", FALSE, <<>>,
                            logSecurityEvent("Unauthorized health history access attempt",
                                             "warning"))
       ELSE ret' = Returned("getHealthHistory", FALSE, [i \in 1..Len(healthHistory) |-> healthHistory[i]], NoEvent)
    /\ UNCHANGED <<userId, healthHistory, alerts, monitoringConfig,
                   currentSession, currentUser, now, storage, pendingWrites,
                   pendingLoads, afterLogout, savedUnder, analysisVars>>

GetAlerts ==
    /\ IF Rejects(userId, isAuthenticated)
       THEN ret' = Returned("getAlerts", FALSE, <<>>,
                            logSecurityEvent("Unauthorized alerts access attempt",
                                             "warning"))
       ELSE ret' = Returned("getAlerts", FALSE, [i \in 1..Len(alerts) |-> alerts[i]], NoEvent)
    /\ UNCHANGED <<userId, healthHistory, alerts, monitoringConfig,
                   currentSession, currentUser, now, storage, pendingWrites,
                   pendingLoads, afterLogout, savedUnder, analysisVars>>

UnreadCount_all(al) == Len(al)

\* this.alerts.filter(alert => !alert.seen).length
UnreadCount(al) == Cardinality({i \in 1..Len(al) : ~al[i].seen})

GetUnreadAlertsCount ==
    /\ ret' = Returned("getUnreadAlertsCount", FALSE, <<UnreadCount(alerts)>>, NoEvent)
    /\ UNCHANGED <<userId, healthHistory, alerts, monitoringConfig,
                   currentSession, currentUser, now, storage, pendingWrites,
                   pendingLoads, afterLogout, savedUnder, analysisVars>>

\* alert.seen = true
MarkSeen_andStatus(alert) == [alert EXCEPT !.seen = TRUE, !.status = "normal"]

MarkSeen(alert) == [alert EXCEPT !.seen = TRUE]

\* this.alerts.findIndex(alert => alert.id === alertId): 0 stands for -1
findIndex(al, alertId) ==
    IF \E i \in 1..Len(al) : al[i].id = alertId
    THEN CHOOSE i \in 1..Len(al) :
            /\ al[i].id = alertId
            /\ \A j \in 1..(i - 1) : al[j].id # alertId
    ELSE 0

MarkAlertAsSeen(alertId) ==
    LET alertIndex == findIndex(alerts, alertId)
    IN /\ IF alertIndex # 0
          THEN /\ alerts' = [alerts EXCEPT ![alertIndex] = MarkSeen(@)]
               /\ pendingWrites' = saveToStorage(pendingWrites, userId,
                                                 monitoringConfig, healthHistory,
                                                 alerts')
               /\ Len(pendingWrites') <= MaxPendingWrites
          ELSE UNCHANGED <<alerts, pendingWrites>>
       /\ ret' = NoReturn
       /\ UNCHANGED <<userId, healthHistory, monitoringConfig, currentSession,
                      currentUser, now, storage, pendingLoads,
                      afterLogout, savedUnder, analysisVars>>

MarkAllAlertsAsSeen ==
    /\ alerts' = [i \in 1..Len(alerts) |-> MarkSeen(alerts[i])]
    /\ pendingWrites' = saveToStorage(pendingWrites, userId, monitoringConfig,
                                      healthHistory, alerts')
    /\ Len(pendingWrites') <= MaxPendingWrites
    /\ ret' = NoReturn
    /\ UNCHANGED <<userId, healthHistory, monitoringConfig, currentSession,
                   currentUser, now, storage, pendingLoads,
                   afterLogout, savedUnder, analysisVars>>

\* { ...this.monitoringConfig, ...config }
SpreadConfig(config, partial) ==
    [k \in DOMAIN config |-> IF k \in DOMAIN partial THEN partial[k] ELSE config[k]]

UpdateMonitoringConfig(partial) ==
    /\ monitoringConfig' = SpreadConfig(monitoringConfig, partial)
    /\ pendingWrites' = saveToStorage(pendingWrites, userId, monitoringConfig',
                                      healthHistory, alerts)
    /\ Len(pendingWrites') <= MaxPendingWrites
    /\ ret' = NoReturn
    /\ UNCHANGED <<userId, healthHistory, alerts, currentSession, currentUser,
                   now, storage, pendingLoads, afterLogout, savedUnder,
                   analysisVars>>

----------------------------------------------------------------------------
(* Asynchronous storage: the continuations of loadFromStorage and the       *)
(* completion of the setItem calls of saveToStorage. AsyncStorage promises  *)
(* no order between calls in flight.                                        *)

RemoveAt(seq, i) == SubSeq(seq, 1, i - 1) \o SubSeq(seq, i + 1, Len(seq))

\* AsyncStorage.getItem reads the key
LoadGetItem(i) ==
    /\ pendingLoads[i].phase = "getItem"
    /\ pendingLoads' = [pendingLoads EXCEPT ![i].phase = "resolved",
                                            ![i].item = storage[pendingLoads[i].key]]
    /\ ret' = NoReturn
    /\ UNCHANGED <<userId, healthHistory, alerts, monitoringConfig,
                   currentSession, currentUser, now, storage, pendingWrites, afterLogout, savedUnder, analysisVars>>

\* AsyncStorage.getItem rejects: the outer catch logs to the console
LoadFails(i) ==
    /\ pendingLoads[i].phase = "getItem"
    /\ pendingLoads' = RemoveAt(pendingLoads, i)
    /\ ret' = NoReturn
    /\ UNCHANGED <<userId, healthHistory, alerts, monitoringConfig,
                   currentSession, currentUser, now, storage, pendingWrites, afterLogout, savedUnder, analysisVars>>

\* The value loadFromStorage restores from a stored item
ParsedData(savedData) == decryptHealthData(savedData).data

\* loadFromStorage resumes after its await with the item read
LoadResume(i) ==
    /\ pendingLoads[i].phase = "resolved"
    /\ pendingLoads' = RemoveAt(pendingLoads, i)
    /\ IF pendingLoads[i].item = <<>>
       THEN /\ ret' = NoReturn
            /\ UNCHANGED <<monitoringConfig, healthHistory, alerts>>
       ELSE IF decryptThrows(pendingLoads[i].item[1])
       THEN \* the inner catch: console.error and a critical log; the promise
            \* of loadFromStorage still resolves
            /\ ret' = Returned("loadFromStorage", FALSE, <<>>,
                               logSecurityEvent("Data decryption error", "critical"))
            /\ UNCHANGED <<monitoringConfig, healthHistory, alerts>>
       ELSE LET parsedData == ParsedData(pendingLoads[i].item[1])
            IN /\ monitoringConfig' = parsedData.config
               /\ healthHistory' = ReviveItems(parsedData.history)
               /\ alerts' = ReviveItems(parsedData.alerts)
               /\ ret' = NoReturn
    /\ UNCHANGED <<userId, currentSession, currentUser, now, storage,
                   pendingWrites, afterLogout, savedUnder, analysisVars>>

\* A setItem call completes: the blob built when it was issued is stored
WriteCompletes(i) ==
    /\ storage' = [storage EXCEPT ![pendingWrites[i].key] = <<pendingWrites[i].value>>]
    /\ pendingWrites' = RemoveAt(pendingWrites, i)
    /\ ret' = NoReturn
    /\ UNCHANGED <<userId, healthHistory, alerts, monitoringConfig,
                   currentSession, currentUser, now, pendingLoads, afterLogout, savedUnder, analysisVars>>

\* A setItem call rejects: saveToStorage catches and logs to the console
WriteFails(i) ==
    /\ pendingWrites' = RemoveAt(pendingWrites, i)
    /\ ret' = NoReturn
    /\ UNCHANGED <<userId, healthHistory, alerts, monitoringConfig,
                   currentSession, currentUser, now, storage, pendingLoads, afterLogout, savedUnder, analysisVars>>

----------------------------------------------------------------------------
(* SecurityService and the logout handler                                   *)

\* login, from valid credentials on: this.currentUser = user;
\* this.currentSession = this.createSession(user.id)
Login(u) ==
    /\ currentUser' = u
    /\ currentSession' = createSession(u)
    /\ ret' = NoReturn
    /\ UNCHANGED <<userId, healthHistory, alerts, monitoringConfig, now, storage,
                   pendingWrites, pendingLoads, afterLogout,
                   savedUnder, analysisVars>>

\* logout up to its await
Logout ==
    /\ currentUser' = NoUser
    /\ currentSession' = NoSession
    /\ ret' = NoReturn
    /\ UNCHANGED <<userId, healthHistory, alerts, monitoringConfig, now, storage,
                   pendingWrites, pendingLoads, afterLogout,
                   savedUnder, analysisVars>>

\* handleLogout: healthMonitoringService.clearUserData();
\* await securityService.logout()
HandleLogout ==
    /\ userId' = NoUser
    /\ healthHistory' = <<>>
    /\ alerts' = <<>>
    /\ currentUser' = NoUser
    /\ currentSession' = NoSession
    /\ afterLogout' = TRUE
    /\ ret' = NoReturn
    /\ UNCHANGED <<monitoringConfig, now, storage, pendingWrites, pendingLoads, savedUnder, analysisVars>>

Tick ==
    /\ now < MaxTime
    /\ now' = now + 1
    /\ ret' = NoReturn
    /\ UNCHANGED <<userId, healthHistory, alerts, monitoringConfig,
                   currentSession, currentUser, storage, pendingWrites,
                   pendingLoads, afterLogout, savedUnder, analysisVars>>

----------------------------------------------------------------------------
(* SecurityService: login with its lockout, logout, the loadSession of the  *)
(* constructor and the security log. Each async method is one action up to  *)
(* its first await and one action per continuation.                         *)

LOCK_THRESHOLD == 5

\* 30 * 60 * 1000 ms: the unit of `clock`
LOCKOUT_DURATION == 1

\* TOKEN_DURATION (24 hours) in units of `clock`
TOKEN_DURATION_ON_CLOCK == 48

\* createSession with Date.now() read from `clock`
createSessionAt(u, t) ==
    [present |-> TRUE, userId |-> u, expiresAt |-> t + TOKEN_DURATION_ON_CLOCK]

\* isAccountLocked: the value it returns
isAccountLocked(locks, email) ==
    IF locks[email] = NoLock THEN FALSE
    ELSE IF clock > locks[email] THEN FALSE
    ELSE TRUE

\* isAccountLocked: delete this.lockedAccounts[email] of an expired lock
ClearExpiredLock(locks, email) ==
    IF locks[email] # NoLock /\ clock > locks[email]
    THEN [locks EXCEPT ![email] = NoLock]
    ELSE locks

\* The SecurityLog object logSecurityEvent builds
SecurityLog(action, sev, details) ==
    [timestamp |-> clock, action |-> action, userId |-> currentUser,
     details |-> details, severity |-> sev]

\* logSecurityEvent: warning and critical logs go to storeSecurityLog, which
\* runs up to its await of getItem
StoreIfSevere(stores, log) ==
    IF log.severity = "critical" \/ log.severity = "warning"
    THEN Append(stores, [log |-> log, phase |-> "getItem", logs |-> <<>>])
    ELSE stores

slice100_first(logs) ==
    IF Len(logs) <= 100 THEN logs ELSE SubSeq(logs, 1, 100)

\* logs.slice(-100)
slice100(logs) ==
    IF Len(logs) <= 100 THEN logs ELSE SubSeq(logs, Len(logs) - 99, Len(logs))

\* The variables no action of SecurityService touches
outsideSecurity == <<analysisVars, userId, healthHistory, alerts, monitoringConfig,
                     now, storage, pendingWrites, pendingLoads, afterLogout,
                     savedUnder, liveVars>>

LoginResult(success) == Returned("login", FALSE, <<success>>, NoEvent)

\* login up to its await of validateCredentials; `valid` is what
\* validateCredentials is going to return
LoginStart(email, valid) ==
    IF isAccountLocked(lockedAccounts, email)
    THEN /\ ret' = LoginResult(FALSE)
         /\ UNCHANGED <<currentSession, currentUser, secVars>>
    ELSE /\ lockedAccounts' = ClearExpiredLock(lockedAccounts, email)
         /\ pendingLogins' = Append(pendingLogins,
                                    [email |-> email, valid |-> valid,
                                     phase |-> "validateCredentials",
                                     session |-> NoSession])
         /\ Len(pendingLogins') <= MaxPendingLogins
         /\ ret' = NoReturn
         /\ UNCHANGED <<currentSession, currentUser, clock, failedAttempts,
                        sessionItem, securityLogs, pendingStores, pendingRemoves,
                        sessionLoad>>

\* recordFailedAttempt and lockAccount: the counter, the lock and the logs
recordFailedAttempt(email) ==
    LET attempts == failedAttempts[email]
        reached == attempts + 1 >= LOCK_THRESHOLD
        failedLog == SecurityLog("Failed login attempt",
                                 IF reached THEN "warning" ELSE "info",
                                 <<email, attempts + 1>>)
        lockedLog == SecurityLog("Account locked", "warning",
                                 <<email, clock + LOCKOUT_DURATION>>)
    IN /\ failedAttempts' = [failedAttempts EXCEPT ![email] = attempts + 1]
       /\ lockedAccounts' = IF reached
                            THEN [lockedAccounts EXCEPT ![email] = clock + LOCKOUT_DURATION]
                            ELSE lockedAccounts
       /\ pendingStores' = IF reached
                           THEN StoreIfSevere(StoreIfSevere(pendingStores, failedLog),
                                              lockedLog)
                           ELSE StoreIfSevere(pendingStores, failedLog)

\* login after validateCredentials: a failure is recorded and returned, a
\* success resets the failures and awaits getUserInfo
LoginValidated(i) ==
    LET l == pendingLogins[i]
    IN /\ l.phase = "validateCredentials"
       /\ IF ~l.valid
          THEN /\ failedAttempts[l.email] < MaxFailedAttempts
               /\ recordFailedAttempt(l.email)
               /\ Len(pendingStores') <= MaxPendingStores
               /\ pendingLogins' = RemoveAt(pendingLogins, i)
               /\ ret' = LoginResult(FALSE)
          ELSE /\ failedAttempts' = [failedAttempts EXCEPT ![l.email] = 0]
               /\ lockedAccounts' = [lockedAccounts EXCEPT ![l.email] = NoLock]
               /\ pendingLogins' = [pendingLogins EXCEPT ![i].phase = "getUserInfo"]
               /\ ret' = NoReturn
               /\ UNCHANGED pendingStores
       /\ UNCHANGED <<currentSession, currentUser, clock, sessionItem,
                      securityLogs, pendingRemoves, sessionLoad>>

\* login after getUserInfo: user and session are set and saveSession issues
\* its setItem with the session just created; no user ends the login
LoginGotUser(i, found) ==
    LET l == pendingLogins[i]
    IN /\ l.phase = "getUserInfo"
       /\ IF found
          THEN /\ currentUser' = UserIdOf[l.email]
               /\ currentSession' = createSessionAt(UserIdOf[l.email], clock)
               /\ pendingLogins' = [pendingLogins EXCEPT
                                       ![i].phase = "saveSession",
                                       ![i].session = currentSession']
               /\ ret' = NoReturn
          ELSE /\ pendingLogins' = RemoveAt(pendingLogins, i)
               /\ ret' = LoginResult(FALSE)
               /\ UNCHANGED <<currentSession, currentUser>>
       /\ UNCHANGED <<clock, failedAttempts, lockedAccounts, sessionItem,
                      securityLogs, pendingStores, pendingRemoves, sessionLoad>>

\* login after saveSession: 'User logged in' is an info log
LoginSaved(i) ==
    /\ pendingLogins[i].phase = "saveSession"
    /\ sessionItem' = <<pendingLogins[i].session>>
    /\ pendingLogins' = RemoveAt(pendingLogins, i)
    /\ ret' = LoginResult(TRUE)
    /\ UNCHANGED <<currentSession, currentUser, clock, failedAttempts,
                   lockedAccounts, securityLogs, pendingStores, pendingRemoves,
                   sessionLoad>>

\* setItem of saveSession rejects: the catch of login logs 'Login error'
LoginSaveFails(i) ==
    /\ pendingLogins[i].phase = "saveSession"
    /\ pendingStores' = StoreIfSevere(pendingStores,
                                      SecurityLog("Login error", "warning", <<>>))
    /\ Len(pendingStores') <= MaxPendingStores
    /\ pendingLogins' = RemoveAt(pendingLogins, i)
    /\ ret' = LoginResult(FALSE)
    /\ UNCHANGED <<currentSession, currentUser, clock, failedAttempts,
                   lockedAccounts, sessionItem, securityLogs, pendingRemoves,
                   sessionLoad>>

\* logout up to its await of removeItem; 'User logged out' is an info log
SecurityLogout ==
    /\ currentUser' = NoUser
    /\ currentSession' = NoSession
    /\ pendingRemoves' = pendingRemoves + 1
    /\ pendingRemoves' <= MaxPendingRemoves
    /\ ret' = NoReturn
    /\ UNCHANGED <<clock, failedAttempts, lockedAccounts, sessionItem,
                   securityLogs, pendingLogins, pendingStores, sessionLoad>>

\* AsyncStorage.removeItem('session') completes
RemoveCompletes ==
    /\ pendingRemoves > 0
    /\ pendingRemoves' = pendingRemoves - 1
    /\ sessionItem' = <<>>
    /\ ret' = NoReturn
    /\ UNCHANGED <<currentSession, currentUser, clock, failedAttempts,
                   lockedAccounts, securityLogs, pendingLogins, pendingStores,
                   sessionLoad>>

\* loadSession after getItem('session'): a valid session is restored and the
\* user looked up; an expired one is removed
LoadSessionGetItem ==
    /\ sessionLoad.phase = "getItem"
    /\ IF sessionItem = <<>>
       THEN /\ sessionLoad' = LoadSessionDone
            /\ UNCHANGED <<currentSession, pendingRemoves>>
       ELSE IF sessionItem[1].expiresAt > clock
       THEN /\ currentSession' = sessionItem[1]
            /\ sessionLoad' = [phase |-> "getUserInfoById", session |-> sessionItem[1]]
            /\ UNCHANGED pendingRemoves
       ELSE /\ pendingRemoves' = pendingRemoves + 1
            /\ pendingRemoves' <= MaxPendingRemoves
            /\ sessionLoad' = LoadSessionDone
            /\ UNCHANGED currentSession
    /\ ret' = NoReturn
    /\ UNCHANGED <<currentUser, clock, failedAttempts, lockedAccounts,
                   sessionItem, securityLogs, pendingLogins, pendingStores>>

\* loadSession after getUserInfoById: the user found becomes the current
\* user; with no user (or a storage error, which returns null) logout() runs
LoadSessionGotUser(found) ==
    /\ sessionLoad.phase = "getUserInfoById"
    /\ IF found
       THEN /\ currentUser' = sessionLoad.session.userId
            /\ UNCHANGED <<currentSession, pendingRemoves>>
       ELSE /\ currentUser' = NoUser
            /\ currentSession' = NoSession
            /\ pendingRemoves' = pendingRemoves + 1
            /\ pendingRemoves' <= MaxPendingRemoves
    /\ sessionLoad' = LoadSessionDone
    /\ ret' = NoReturn
    /\ UNCHANGED <<clock, failedAttempts, lockedAccounts, sessionItem,
                   securityLogs, pendingLogins, pendingStores>>

\* logSecurityEvent called by any other method of the app
LogSecurityEvent(action, sev) ==
    /\ pendingStores' = StoreIfSevere(pendingStores, SecurityLog(action, sev, <<>>))
    /\ Len(pendingStores') <= MaxPendingStores
    /\ ret' = NoReturn
    /\ UNCHANGED <<currentSession, currentUser, clock, failedAttempts,
                   lockedAccounts, sessionItem, securityLogs, pendingLogins,
                   pendingRemoves, sessionLoad>>

\* storeSecurityLog after getSecurityLogs: push, slice and the setItem call
StoreGetItem(i) ==
    /\ pendingStores[i].phase = "getItem"
    /\ pendingStores' = [pendingStores EXCEPT
                            ![i].phase = "setItem",
                            ![i].logs = slice100(Append(securityLogs,
                                                        pendingStores[i].log))]
    /\ ret' = NoReturn
    /\ UNCHANGED <<currentSession, currentUser, clock, failedAttempts,
                   lockedAccounts, sessionItem, securityLogs, pendingLogins,
                   pendingRemoves, sessionLoad>>

\* setItem('security_logs', trimmedLogs) completes
StoreSetItem(i) ==
    /\ pendingStores[i].phase = "setItem"
    /\ securityLogs' = pendingStores[i].logs
    /\ pendingStores' = RemoveAt(pendingStores, i)
    /\ ret' = NoReturn
    /\ UNCHANGED <<currentSession, currentUser, clock, failedAttempts,
                   lockedAccounts, sessionItem, pendingLogins, pendingRemoves,
                   sessionLoad>>

ClockTick ==
    /\ clock < MaxClock
    /\ clock' = clock + 1
    /\ ret' = NoReturn
    /\ UNCHANGED <<currentSession, currentUser, failedAttempts, lockedAccounts,
                   sessionItem, securityLogs, pendingLogins, pendingStores,
                   pendingRemoves, sessionLoad>>

\* One step of the security service, a completion or a clock tick
SecurityStep(A) ==
    /\ steps < MaxSecuritySteps
    /\ steps' = steps + 1
    /\ A
    /\ UNCHANGED outsideSecurity

\* What the device holds when the service is constructed: no failure yet,
\* four failures of a@mail, or the lock its fifth failure set, about to expire
PreviousFailures == {0, 4, 5}

\* The session a login of user A left in storage
PreviousSession == [present |-> TRUE, userId |-> "A", expiresAt |-> TOKEN_DURATION_ON_CLOCK - 1]

SecurityInit ==
    /\ AnalysisIdle
    /\ PatientDataInit
    /\ MonitorInitWith({<<>>})
    /\ clock = 0
    /\ \E n \in PreviousFailures :
          /\ failedAttempts = [e \in Emails |-> IF e = "a@mail" THEN n ELSE 0]
          /\ lockedAccounts = [e \in Emails |->
                                  IF e = "a@mail" /\ n >= LOCK_THRESHOLD
                                  THEN 0 ELSE NoLock]
    /\ sessionItem \in {<<>>, <<PreviousSession>>}
    /\ securityLogs = <<>>
    /\ pendingLogins = <<>>
    /\ pendingStores = <<>>
    /\ pendingRemoves = 0
    /\ sessionLoad = [phase |-> "getItem", session |-> NoSession]

SecurityNext ==
    \/ \E email \in Emails, valid \in BOOLEAN : SecurityStep(LoginStart(email, valid))
    \/ \E i \in 1..Len(pendingLogins) : SecurityStep(LoginValidated(i))
    \/ \E i \in 1..Len(pendingLogins), found \in BOOLEAN :
          SecurityStep(LoginGotUser(i, found))
    \/ \E i \in 1..Len(pendingLogins) : SecurityStep(LoginSaved(i))
    \/ \E i \in 1..Len(pendingLogins) : SecurityStep(LoginSaveFails(i))
    \/ SecurityStep(SecurityLogout)
    \/ SecurityStep(RemoveCompletes)
    \/ SecurityStep(LoadSessionGetItem)
    \/ \E found \in BOOLEAN : SecurityStep(LoadSessionGotUser(found))
    \/ \E i \in 1..Len(pendingStores) : SecurityStep(StoreGetItem(i))
    \/ \E i \in 1..Len(pendingStores) : SecurityStep(StoreSetItem(i))
    \/ SecurityStep(ClockTick)

SpecSecurity == SecurityInit /\ [][SecurityNext]_vars

----------------------------------------------------------------------------
(* The security log of a device in use: earlier warning and critical events *)
(* are stored, and the services log further events.                         *)

PreviousLogCounts == {0, 99, 100}

\* The k events stored before, oldest first, with timestamps -k .. -1
PreviousLogs(k) ==
    [i \in 1..k |->
        [timestamp |-> i - k - 1, action |-> "Unauthorized health data save attempt",
         userId |-> NoUser, details |-> <<>>, severity |-> "warning"]]

\* Calls of logSecurityEvent made by the services
LoggedEvents ==
    {<<"Service initialized", "info">>,
     <<"Unauthorized health data save attempt", "warning">>,
     <<"Data decryption error", "critical">>}

SecurityLogInit ==
    /\ AnalysisIdle
    /\ PatientDataInit
    /\ MonitorInitWith({<<>>})
    /\ clock = 0
    /\ failedAttempts = [e \in Emails |-> 0]
    /\ lockedAccounts = [e \in Emails |-> NoLock]
    /\ sessionItem = <<>>
    /\ \E k \in PreviousLogCounts : securityLogs = PreviousLogs(k)
    /\ pendingLogins = <<>>
    /\ pendingStores = <<>>
    /\ pendingRemoves = 0
    /\ sessionLoad = LoadSessionDone

SecurityLogNext ==
    \/ \E event \in LoggedEvents : SecurityStep(LogSecurityEvent(event[1], event[2]))
    \/ \E i \in 1..Len(pendingStores) : SecurityStep(StoreGetItem(i))
    \/ \E i \in 1..Len(pendingStores) : SecurityStep(StoreSetItem(i))
    \/ SecurityStep(ClockTick)

SpecSecurityLog == SecurityLogInit /\ [][SecurityLogNext]_vars

----------------------------------------------------------------------------
(* The per-metric live-update path: PatientDataContext and the metric      *)
(* dialogue of the monitoring screen. The chat messages and the chart rows *)
(* of the patient are presentation state and are not held here.            *)

\* checkForAbnormalities of PatientDataContext (temperature in Fahrenheit)
checkForAbnormalities(metric) ==
    CASE metric.name = "Blood Pressure" ->
            IF metric.value[1] > 140 \/ metric.value[2] > 90 THEN "critical"
            ELSE IF metric.value[1] > 130 \/ metric.value[2] > 85 THEN "warning"
            ELSE "normal"
      [] metric.name = "Heart Rate" ->
            IF metric.value > 100 THEN "critical"
            ELSE IF metric.value > 90 THEN "warning"
            ELSE "normal"
      [] metric.name = "Blood Sugar" ->
            IF metric.value > 180 THEN "critical"
            ELSE IF metric.value > 140 THEN "warning"
            ELSE "normal"
      [] metric.name = "Oxygen Level" ->
            IF metric.value < 92 THEN "critical"
            ELSE IF metric.value < 95 THEN "warning"
            ELSE "normal"
      [] metric.name = "Temperature" ->
            IF metric.value > 1004 THEN "critical"
            ELSE IF metric.value > 995 THEN "warning"
            ELSE "normal"
      [] OTHER -> "normal"

\* setCurrentPatient(patient) with a patient of the list
SetCurrentPatient ==
    /\ currentPatient' = patient
    /\ UNCHANGED <<patient, contextAlerts>>

PatientAlert(patientId, message, status) ==
    [patientId |-> patientId, message |-> message, status |-> status, read |-> FALSE]

\* if (status !== 'normal' && (status !== metric.status))
RaisesAlert(status, metric) == status # "normal" /\ status # metric.status

\* The alerts updatePatientHealthMetrics pushes for its metrics, in order
RECURSIVE NewMetricAlerts(_, _)
NewMetricAlerts(patientId, metrics) ==
    IF metrics = <<>> THEN <<>>
    ELSE LET metric == Head(metrics)
             status == checkForAbnormalities(metric)
         IN (IF RaisesAlert(status, metric)
             THEN <<PatientAlert(patientId, <<metric.name, metric.value>>, status)>>
             ELSE <<>>)
            \o NewMetricAlerts(patientId, Tail(metrics))

\* The status of the patient after an update of its metrics
WorstOf(metrics) ==
    IF \E i \in 1..Len(metrics) : metrics[i].status = "critical" THEN "critical"
    ELSE IF \E i \in 1..Len(metrics) : metrics[i].status = "warning" THEN "warning"
    ELSE "normal"

\* updatePatientHealthMetrics: the metrics of the patient are replaced by the
\* argument with each status recomputed; an alert is pushed, to the patient
\* and to the context, for each metric whose computed status is not normal
\* and differs from the status the argument carries.
UpdatePatientHealthMetrics(patientId, metrics) ==
    /\ IF patient.id = patientId
       THEN LET updatedMetrics ==
                    [i \in 1..Len(metrics) |->
                        [metrics[i] EXCEPT !.status = checkForAbnormalities(metrics[i])]]
                newAlerts == NewMetricAlerts(patient.id, metrics)
            IN /\ patient' = [patient EXCEPT !.healthMetrics = updatedMetrics,
                                             !.alerts = @ \o newAlerts,
                                             !.status = WorstOf(updatedMetrics)]
               /\ contextAlerts' = contextAlerts \o newAlerts
       ELSE UNCHANGED <<patient, contextAlerts>>
    /\ UNCHANGED currentPatient

\* validateMetricValue of the screen, for the digits the user typed
validateMetricValue(metric, value) ==
    CASE metric = "heart rate"   -> value >= 10 /\ value <= 999 /\ value > 30 /\ value < 220
      [] metric = "oxygen level" -> value >= 10 /\ value <= 99 /\ value >= 80 /\ value <= 100
      [] OTHER -> FALSE

mapMetricTypeToEnum(metric) ==
    CASE metric = "blood pressure" -> "bloodPressure"
      [] metric = "heart rate"     -> "heartRate"
      [] metric = "temperature"    -> "temperature"
      [] metric = "weight"         -> "weight"
      [] metric = "oxygen level"   -> "oxygenLevel"
      [] OTHER                     -> "heartRate"

\* checkForAbnormalities of the monitoring screen
screenCheckForAbnormalities(metric) ==
    CASE metric.type = "heartRate" ->
            IF metric.value >= 120 \/ metric.value <= 50 THEN "critical"
            ELSE IF metric.value >= 100 \/ metric.value <= 60 THEN "warning"
            ELSE "normal"
      [] metric.type = "oxygenLevel" ->
            IF metric.value <= 90 THEN "critical"
            ELSE IF metric.value <= 94 THEN "warning"
            ELSE "normal"
      [] OTHER -> "normal"

\* handleHealthMetricResponse while a metric value is awaited: a valid value
\* is appended to the metrics of the current patient (updatePatient), and a
\* status other than normal calls createAlert, which throws and is caught,
\* and addAlert, which puts the alert first in the context's list.
HandleHealthMetricResponse(currentMetric, userInput) ==
    IF validateMetricValue(currentMetric, userInput) /\ currentPatient # NoPatient
    THEN LET newMetric == [type |-> mapMetricTypeToEnum(currentMetric),
                           value |-> userInput]
             status == screenCheckForAbnormalities(newMetric)
             updatedPatient ==
                 [currentPatient EXCEPT
                     !.healthMetrics = Append(@, Metric(currentMetric, userInput, status)),
                     !.status = status]
         IN /\ patient' = IF patient.id = currentPatient.id
                          THEN updatedPatient ELSE patient
            /\ currentPatient' = updatedPatient
            /\ contextAlerts' =
                 IF status # "normal"
                 THEN <<PatientAlert(currentPatient.id,
                                     <<currentMetric, userInput>>, status)>>
                      \o contextAlerts
                 ELSE contextAlerts
    ELSE UNCHANGED liveVars

\* Inputs of the live-update path
\* The caller of updatePatientHealthMetrics passes the metric object the
\* patient holds with a new value, or a new object when the patient holds
\* none of that name
CallerMetric(name, value) ==
    LET held == {i \in 1..Len(patient.healthMetrics) :
                    patient.healthMetrics[i].name = name}
    IN IF held = {} THEN Metric(name, value, "normal")
       ELSE [patient.healthMetrics[CHOOSE i \in held : \A j \in held : j <= i]
                EXCEPT !.value = value]

LiveMetricValues ==
    {<<"Heart Rate", v>> : v \in {88, 95, 105}}
    \cup {<<"Oxygen Level", v>> : v \in {97, 93, 91}}

TypedValues ==
    {<<"heart rate", v>> : v \in {20, 72, 105, 125}}
    \cup {<<"oxygen level", v>> : v \in {97, 93, 90}}

LiveStep(A) ==
    /\ steps < MaxLiveUpdates
    /\ steps' = steps + 1
    /\ A
    /\ UNCHANGED <<analysisVars, monVars, secVars>>

LiveNext ==
    \/ LiveStep(currentPatient = NoPatient /\ SetCurrentPatient)
    \/ \E id \in {"101", "102"}, new \in LiveMetricValues :
          LiveStep(UpdatePatientHealthMetrics(id, <<CallerMetric(new[1], new[2])>>))
    \/ \E typed \in TypedValues :
          LiveStep(HandleHealthMetricResponse(typed[1], typed[2]))

LiveInit ==
    /\ PatientDataInit
    /\ SecurityIdle
    /\ AnalysisIdle
    /\ MonitorInit
    /\ storage[StorageKey("A")] = <<>>

SpecLiveUpdate == LiveInit /\ [][LiveNext]_vars

----------------------------------------------------------------------------

\* One step of the device: a call, a completion or a clock tick
Step(A) ==
    steps < MaxSteps /\ steps' = steps + 1 /\ A /\ UNCHANGED <<liveVars, secVars>>

\* The screens set the identity of a session when none is set
MonitorNext ==
    \/ \E u \in Users : Step(userId = NoUser /\ SetUserId(u))
    \/ Step(ClearUserData)
    \/ \E input \in SaveInputs : Step(SaveHealthData(input[1], input[2]))
    \/ Step(GetHealthHistory)
    \/ Step(GetAlerts)
    \/ Step(GetUnreadAlertsCount)
    \/ \E alertId \in AlertIds : Step(MarkAlertAsSeen(alertId))
    \/ Step(MarkAllAlertsAsSeen)
    \/ \E partial \in PartialConfigs : Step(UpdateMonitoringConfig(partial))
    \/ \E i \in 1..Len(pendingLoads) : Step(LoadGetItem(i))
    \/ \E i \in 1..Len(pendingLoads) : Step(LoadFails(i))
    \/ \E i \in 1..Len(pendingLoads) : Step(LoadResume(i))
    \/ \E i \in 1..Len(pendingWrites) : Step(WriteCompletes(i))
    \/ \E i \in 1..Len(pendingWrites) : Step(WriteFails(i))
    \/ \E u \in Users : Step(Login(u))
    \/ Step(Logout)
    \/ Step(HandleLogout)
    \/ Step(Tick)

----------------------------------------------------------------------------
(* A reading taken on the monitoring screen: user A is logged in with the   *)
(* default configuration, the reading is analysed and then saved with the   *)
(* status the analysis gave it, and the writes of the save complete.        *)

ReadingInit ==
    /\ reading \in BpReadings \cup {ExampleReading}
    /\ svmOutcome \in SvmOutcomes
    /\ analysisResult = NotAnalysed
    /\ PatientDataInit
    /\ SecurityIdle
    /\ now = 0
    /\ userId = "A"
    /\ currentUser = "A"
    /\ currentSession = createSession("A")
    /\ monitoringConfig = DefaultConfig
    /\ healthHistory = <<>>
    /\ alerts = <<>>
    /\ storage = [key \in StorageKeys |-> <<>>]
    /\ savedUnder = [u \in Users |-> NothingSaved]
    /\ pendingWrites = <<>>
    /\ pendingLoads = <<>>
    /\ ret = NoReturn
    /\ afterLogout = FALSE
    /\ steps = 0

\* const result = analyzeHealthData(data); saveHealthData(data, result.status)
SaveAnalysed ==
    /\ analysisResult.done
    /\ healthHistory = <<>>
    /\ saveHealthData(reading, analysisResult.status)

ReadingNext ==
    \/ AnalyzeHealthData
    \/ Step(SaveAnalysed)
    \/ \E i \in 1..Len(pendingWrites) : Step(WriteCompletes(i))

SpecReading == ReadingInit /\ [][ReadingNext]_vars

----------------------------------------------------------------------------
(* The metric switches of the settings: user A is logged in, sets the       *)
(* metrics object of the config and saves readings.                         *)

\* updateMonitoringConfig({ metrics: {...} }) for every setting of the flags
MetricPartials ==
    {[metrics |-> [heartRate |-> hr, bloodPressure |-> bp, temperature |-> temp,
                   oxygenLevel |-> o2, weight |-> w]] :
        hr \in BOOLEAN, bp \in BOOLEAN, temp \in BOOLEAN, o2 \in BOOLEAN,
        w \in BOOLEAN}

AlertMetricsInit ==
    /\ AnalysisIdle
    /\ PatientDataInit
    /\ SecurityIdle
    /\ now = 0
    /\ userId = "A"
    /\ currentUser = "A"
    /\ currentSession = createSession("A")
    /\ monitoringConfig = DefaultConfig
    /\ healthHistory = <<>>
    /\ alerts = <<>>
    /\ storage = [key \in StorageKeys |-> <<>>]
    /\ savedUnder = [u \in Users |-> NothingSaved]
    /\ pendingWrites = <<>>
    /\ pendingLoads = <<>>
    /\ ret = NoReturn
    /\ afterLogout = FALSE
    /\ steps = 0

\* One call on the service or one completion, within the bound of the run
MetricsStep(A) ==
    /\ steps < MaxMetricsSteps
    /\ steps' = steps + 1
    /\ A
    /\ UNCHANGED <<liveVars, secVars>>

AlertMetricsNext ==
    \/ \E partial \in MetricPartials : MetricsStep(UpdateMonitoringConfig(partial))
    \/ \E input \in SaveInputs : MetricsStep(SaveHealthData(input[1], input[2]))
    \/ \E i \in 1..Len(pendingWrites) : MetricsStep(WriteCompletes(i))

SpecAlertMetrics == AlertMetricsInit /\ [][AlertMetricsNext]_vars

----------------------------------------------------------------------------
(* The alert log of a long-running session: user A is logged in and the    *)
(* session has loaded what earlier saves of the example reading left.      *)

PreviousAlertCounts == {0, 99}

AlertLogInit ==
    /\ AnalysisIdle
    /\ PatientDataInit
    /\ SecurityIdle
    /\ now = 0
    /\ userId = "A"
    /\ currentUser = "A"
    /\ currentSession = createSession("A")
    /\ monitoringConfig = DefaultConfig
    /\ \E k \in PreviousAlertCounts :
          /\ healthHistory = [i \in 1..k |-> HistoryEntry(ExampleReading, "critical", 0)]
          /\ alerts = [i \in 1..k |-> NewAlert(DefaultConfig, ExampleReading, "critical", 0)]
    /\ storage = [key \in StorageKeys |->
                     IF key = StorageKey("A") /\ alerts # <<>>
                     THEN <<saveToStorage(<<>>, "A", DefaultConfig,
                                          healthHistory, alerts)[1].value>>
                     ELSE <<>>]
    /\ savedUnder = [u \in Users |->
                        IF u = "A"
                        THEN [history |-> {healthHistory[i] : i \in 1..Len(healthHistory)},
                              alerts |-> {alerts[i] : i \in 1..Len(alerts)}]
                        ELSE NothingSaved]
    /\ pendingWrites = <<>>
    /\ pendingLoads = <<>>
    /\ ret = NoReturn
    /\ afterLogout = FALSE
    /\ steps = 0

AlertLogNext ==
    \/ \E input \in SaveInputs :
          Step(/\ Len(alerts) < MaxAlertLog
               /\ saveHealthData(input[1], input[2])
               /\ Len(pendingWrites') <= MaxPendingWrites)
    \/ \E i \in 1..Len(pendingWrites) : Step(WriteCompletes(i))
    \/ Step(MarkAllAlertsAsSeen)

SpecAlertLog == AlertLogInit /\ [][AlertLogNext]_vars

\* The analysis service is idle while the monitoring session runs
MonitorSessionInit ==
    /\ AnalysisIdle
    /\ MonitorInit
    /\ PatientDataInit
    /\ SecurityIdle

SpecMonitor == MonitorSessionInit /\ [][MonitorNext]_vars

\* The monitoring session on a device whose blob for user A was written
\* under another secret key
UnreadableSessionInit ==
    /\ AnalysisIdle
    /\ MonitorInitWith({<<UnreadableItem>>})
    /\ PatientDataInit
    /\ SecurityIdle

SpecUnreadable == UnreadableSessionInit /\ [][MonitorNext]_vars

----------------------------------------------------------------------------
(* Properties of analyzeHealthData, checked under SpecAnalysis              *)

Rank(status) == CASE status = "normal" -> 0
                  [] status = "warning" -> 1
                  [] status = "critical" -> 2

InNormalBand(m, v) ==
    CASE m = "heartRate"              -> 60 <= v /\ v <= 100
      [] m = "bloodPressureSystolic"  -> 90 <= v /\ v <= 129
      [] m = "bloodPressureDiastolic" -> 60 <= v /\ v <= 84
      [] m = "oxygenLevel"            -> 95 <= v /\ v <= 100
      [] m = "temperature"            -> 361 <= v /\ v <= 372

\* o2Above: whether oxygen above 100 counts as outside the critical band
OutsideCriticalBand(m, v, o2Above) ==
    CASE m = "heartRate"              -> v < 40 \/ v > 140
      [] m = "bloodPressureSystolic"  -> v < 70 \/ v > 180
      [] m = "bloodPressureDiastolic" -> v < 40 \/ v > 120
      [] m = "oxygenLevel"            -> v < 90 \/ (o2Above /\ v > 100)
      [] m = "temperature"            -> v < 350 \/ v > 385

BandsDecide(o2Above) ==
    analysisResult.done =>
        \A m \in MetricNames :
            LET st == analysisResult.metrics[m].status
                v == reading[m]
            IN /\ st \in {"normal", "warning", "critical"}
               /\ (st = "normal") <=> InNormalBand(m, v)
               /\ (st = "critical") <=> OutsideCriticalBand(m, v, o2Above)
               /\ (st = "warning") <=>
                     (~InNormalBand(m, v) /\ ~OutsideCriticalBand(m, v, o2Above))

C2_NeverWeakerThanWorstMetric ==
    analysisResult.done =>
        \A m \in MetricNames :
            Rank(analysisResult.status) >= Rank(analysisResult.metrics[m].status)

C2_Witness ==
    /\ analysisResult.done
    /\ svmOutcome = "0"
    /\ analysisResult.metrics.bloodPressureSystolic.status = "critical"
    /\ \A m \in MetricNames \ {"bloodPressureSystolic"} :
          analysisResult.metrics[m].status = "normal"
    /\ analysisResult.status = "critical"

WorstRank == CHOOSE r \in 0..2 :
    /\ \E m \in MetricNames : Rank(analysisResult.metrics[m].status) = r
    /\ \A m \in MetricNames : Rank(analysisResult.metrics[m].status) <= r

VoteRank == CASE svmOutcome = "1" -> 1
              [] svmOutcome = "2" -> 2
              [] OTHER -> 0

\* C3: the overall status is the more severe of the worst metric status and
\* the model's vote, the vote counting as normal when the prediction throws
\* or is no label; analyzeHealthData does not throw.
C3_OverallIsMaxOfWorstAndVote ==
    analysisResult.done =>
        /\ ~analysisResult.threw
        /\ Rank(analysisResult.status) =
              (IF WorstRank >= VoteRank THEN WorstRank ELSE VoteRank)

C3_Witness ==
    /\ analysisResult.done
    /\ svmOutcome = "throws"
    /\ WorstRank = 1
    /\ analysisResult.status = "warning"
    /\ ~analysisResult.threw

----------------------------------------------------------------------------
(* Properties of the monitoring session, checked under SpecMonitor          *)

\* The caller is authenticated: a user id is set and the session exists and
\* has not expired
CallerAuthenticated ==
    /\ userId \in Users
    /\ currentSession.present
    /\ now < currentSession.expiresAt

IsPrefix(a, b) ==
    /\ Len(a) <= Len(b)
    /\ \A i \in 1..Len(a) : a[i] = b[i]

\* C4: an unauthenticated saveHealthData throws and leaves history, alerts,
\* config and the stored blob (and the writes on their way to it) unchanged;
\* an authenticated one appends exactly one history entry.
C4_SaveRequiresAuthentication ==
    [][ret'.op = "saveHealthData" =>
          IF ~CallerAuthenticated
          THEN /\ ret'.threw
               /\ healthHistory' = healthHistory
               /\ alerts' = alerts
               /\ monitoringConfig' = monitoringConfig
               /\ storage' = storage
               /\ pendingWrites' = pendingWrites
          ELSE /\ ~ret'.threw
               /\ Len(healthHistory') = Len(healthHistory) + 1
               /\ IsPrefix(healthHistory, healthHistory')]_vars

\* A save rejected because the session has expired, with a user id set
C4_Witness ==
    /\ ret.op = "saveHealthData"
    /\ ret.threw
    /\ userId \in Users
    /\ currentSession.present
    /\ now >= currentSession.expiresAt

\* C5: unauthenticated getHealthHistory and getAlerts return an empty
\* collection and do not throw, whatever history and alerts hold.
C5_UnauthenticatedReadsAreEmpty ==
    [][(ret'.op \in {"getHealthHistory", "getAlerts"} /\ ~CallerAuthenticated) =>
          (ret'.value = <<>> /\ ~ret'.threw)]_vars

C5_Witness ==
    /\ ret.op = "getHealthHistory"
    /\ healthHistory # <<>>
    /\ ret.value = <<>>
    /\ ~ret.threw
    /\ ~CallerAuthenticated

C6_PublicCall ==
    \/ ret'.op \in {"saveHealthData", "getHealthHistory", "getAlerts",
                    "getUnreadAlertsCount"}
    \/ MarkAllAlertsAsSeen
    \/ \E alertId \in AlertIds : MarkAlertAsSeen(alertId)

\* C6: each of saveHealthData, getHealthHistory, getAlerts,
\* getUnreadAlertsCount, markAlertAsSeen and markAllAlertsAsSeen, called
\* unauthenticated, changes neither alerts nor history and returns what it
\* would return were there no alerts and no history (nothing, or a count of 0).
C6_FailsClosed ==
    [][(C6_PublicCall /\ ~CallerAuthenticated) =>
          /\ alerts' = alerts
          /\ healthHistory' = healthHistory
          /\ (ret'.value = <<>> \/ ret'.value = <<0>>)]_vars

\* C7: from handleLogout until the next setUserId the in-memory history and
\* alert list are empty, also when a load started earlier completes.
C7_EmptyAfterLogout ==
    afterLogout => (healthHistory = <<>> /\ alerts = <<>>)

Unseen(alert) == [alert EXCEPT !.seen = FALSE]

OwnItems(u, history, alertList) ==
    /\ \A i \in 1..Len(history) : history[i] \in savedUnder[u].history
    /\ \A i \in 1..Len(alertList) : Unseen(alertList[i]) \in savedUnder[u].alerts

OwnBlob(u, item) ==
    OwnItems(u, ReviveItems(ParsedData(item).history),
                ReviveItems(ParsedData(item).alerts))

\* C8: what getHealthHistory and getAlerts return in a user's session, and
\* what is stored or on its way to being stored under a user's key, are only
\* entries and alerts created under that user's id.
C8_NoCrossUserData ==
    /\ (userId \in Users /\ ret.op = "getHealthHistory")
          => OwnItems(userId, ret.value, <<>>)
    /\ (userId \in Users /\ ret.op = "getAlerts")
          => OwnItems(userId, <<>>, ret.value)
    /\ \A u \in Users :
          /\ storage[StorageKey(u)] # <<>> => OwnBlob(u, storage[StorageKey(u)][1])
          /\ \A i \in 1..Len(pendingWrites) :
                pendingWrites[i].key = StorageKey(u)
                    => OwnBlob(u, pendingWrites[i].value)

C9_LedgerReset ==
    \/ ClearUserData
    \/ HandleLogout
    \/ \E i \in 1..Len(pendingLoads) : LoadResume(i)

C10_AlertIffActiveAndAtThreshold ==
    [][(ret'.op = "saveHealthData" /\ ~ret'.threw) =>
          LET passed == healthHistory'[Len(healthHistory')].status
              n == Len(alerts)
          IN /\ Len(healthHistory') = Len(healthHistory) + 1
             /\ IF /\ monitoringConfig.isActive
                   /\ Rank(passed) >= Rank(monitoringConfig.alertThreshold)
                THEN /\ Len(alerts') = n + 1
                     /\ IsPrefix(alerts, alerts')
                     /\ ~alerts'[n + 1].seen
                     /\ alerts'[n + 1].status = passed
                ELSE alerts' = alerts]_vars

\* A save at the threshold raised the second alert of the list
C10_Witness ==
    /\ ret.op = "saveHealthData"
    /\ ~ret.threw
    /\ Len(alerts) = 2
    /\ alerts[2].status = monitoringConfig.alertThreshold
    /\ ~alerts[2].seen
    /\ Len(healthHistory) = 2

\* C13: no step other than a reset of the session changes anything but the
\* seen flag of an alert already in the list or moves it; markAlertAsSeen(id)
\* changes at most one alert, one with that id, and only its seen flag;
\* markAllAlertsAsSeen changes only seen flags; both leave the length of the
\* list, the history and the config as they are.
C13_AlertsImmutableButSeen ==
    [][/\ ~C9_LedgerReset =>
             /\ Len(alerts') >= Len(alerts)
             /\ \A i \in 1..Len(alerts) : Unseen(alerts'[i]) = Unseen(alerts[i])
       /\ \A alertId \in AlertIds :
             MarkAlertAsSeen(alertId) =>
                LET changed == {i \in 1..Len(alerts) : alerts'[i] # alerts[i]}
                IN /\ Len(alerts') = Len(alerts)
                   /\ Cardinality(changed) <= 1
                   /\ \A i \in changed :
                         /\ alerts[i].id = alertId
                         /\ alerts'[i] = [alerts[i] EXCEPT !.seen = TRUE]
                   /\ healthHistory' = healthHistory
                   /\ monitoringConfig' = monitoringConfig
       /\ MarkAllAlertsAsSeen =>
             /\ Len(alerts') = Len(alerts)
             /\ \A i \in 1..Len(alerts) : alerts'[i].seen
             /\ healthHistory' = healthHistory
             /\ monitoringConfig' = monitoringConfig]_vars

\* A save that follows markAlertAsSeen: the alert is seen and otherwise as
\* it was raised
C13_Witness ==
    /\ ret.op = "saveHealthData"
    /\ ~ret.threw
    /\ Len(healthHistory) = 2
    /\ Len(alerts) = 1
    /\ alerts[1] = MarkSeen(PreviousAlerts[1])

RECURSIVE CountUnseen(_)
CountUnseen(al) ==
    IF al = <<>> THEN 0
    ELSE (IF Head(al).seen THEN 0 ELSE 1) + CountUnseen(Tail(al))

\* C14: getUnreadAlertsCount returns the number of alerts not seen; that
\* number grows by one when a save raises an alert, drops by one when
\* markAlertAsSeen finds its alert unseen, stays when the id is unknown or
\* the alert found is seen already, and is 0 after markAllAlertsAsSeen.
C14_UnreadCountIsUnseenCount ==
    [][/\ ret'.op = "getUnreadAlertsCount" => ret'.value = <<CountUnseen(alerts)>>
       /\ (ret'.op = "saveHealthData" /\ Len(alerts') = Len(alerts) + 1)
             => UnreadCount(alerts') = UnreadCount(alerts) + 1
       /\ \A alertId \in AlertIds :
             MarkAlertAsSeen(alertId) =>
                LET hits == {i \in 1..Len(alerts) : alerts[i].id = alertId}
                IN IF hits # {} /\ ~alerts[CHOOSE i \in hits : \A j \in hits : i <= j].seen
                   THEN UnreadCount(alerts') = UnreadCount(alerts) - 1
                   ELSE UnreadCount(alerts') = UnreadCount(alerts)
       /\ MarkAllAlertsAsSeen => UnreadCount(alerts') = 0]_vars

\* The only alert is seen and the count returned is 0
C14_Witness ==
    /\ ret.op = "getUnreadAlertsCount"
    /\ ret.value = <<0>>
    /\ Len(alerts) = 1

\* C15: when the last write a successful saveHealthData started fails, the
\* failure reaches a caller as an error, and history and alerts stay.
C15_WriteFailureReported ==
    [][(/\ ret.op = "saveHealthData"
        /\ ~ret.threw
        /\ pendingWrites # <<>>
        /\ WriteFails(Len(pendingWrites)))
          => /\ ret'.threw
             /\ healthHistory' = healthHistory
             /\ alerts' = alerts]_vars

\* C16: a load that finds a blob it cannot decrypt logs at critical severity
\* and ends in an error its caller sees.
C16_UnreadableBlobSurfaced ==
    [][\A i \in 1..Len(pendingLoads) :
          (/\ pendingLoads[i].phase = "resolved"
           /\ pendingLoads[i].item # <<>>
           /\ decryptThrows(pendingLoads[i].item[1])
           /\ LoadResume(i))
             => /\ ret'.logged.severity = "critical"
                /\ ret'.threw]_vars

\* C19: when the load of the session's user completes, the config is the
\* stored one, or the default when nothing is stored under the user's key
\* and no write to it is in flight; updateMonitoringConfig sets the fields of its argument and leaves the
\* other fields, the history and the alerts.
C19_ConfigOfTheSessionUser ==
    [][/\ \A i \in 1..Len(pendingLoads) :
             (/\ pendingLoads[i].phase = "resolved"
              /\ pendingLoads[i].key = StorageKey(userId)
              /\ LoadResume(i))
                => IF pendingLoads[i].item = <<>>
                   THEN (/\ storage[StorageKey(userId)] = <<>>
                         /\ \A w \in 1..Len(pendingWrites) :
                               pendingWrites[w].key # StorageKey(userId))
                           => monitoringConfig' = DefaultConfig
                   ELSE ~decryptThrows(pendingLoads[i].item[1])
                           => monitoringConfig' = ParsedData(pendingLoads[i].item[1]).config
       /\ \A partial \in PartialConfigs :
             UpdateMonitoringConfig(partial) =>
                /\ \A k \in DOMAIN partial : monitoringConfig'[k] = partial[k]
                /\ \A k \in DOMAIN monitoringConfig \ DOMAIN partial :
                      monitoringConfig'[k] = monitoringConfig[k]
                /\ healthHistory' = healthHistory
                /\ alerts' = alerts]_vars

----------------------------------------------------------------------------
(* Properties of the per-metric live-update path, under SpecLiveUpdate     *)

MetricKind(name) ==
    CASE name \in {"Heart Rate", "heart rate"}     -> "heartRate"
      [] name \in {"Oxygen Level", "oxygen level"} -> "oxygenLevel"
      [] OTHER                                     -> name

OfKind(metrics, kind) ==
    {i \in 1..Len(metrics) : MetricKind(metrics[i].name) = kind}

\* The status the patient's metrics hold for the most recent metric of a kind
PreviousStatus(metrics, kind) ==
    metrics[CHOOSE i \in OfKind(metrics, kind) :
                \A j \in OfKind(metrics, kind) : j <= i].status

\* C11: when a live update gives a metric a new reading, one alert is raised
\* if the metric goes from normal to warning or from warning to critical,
\* and none if its severity is the same non-normal one as before.
C11_AlertOnTransitionOnly ==
    [][patient'.healthMetrics # patient.healthMetrics =>
          LET updated == patient'.healthMetrics[Len(patient'.healthMetrics)]
              kind == MetricKind(updated.name)
              raised == Len(contextAlerts') - Len(contextAlerts)
          IN OfKind(patient.healthMetrics, kind) # {} =>
                LET previous == PreviousStatus(patient.healthMetrics, kind)
                IN /\ (previous = "normal" /\ updated.status = "warning")
                         => raised = 1
                   /\ (previous = updated.status /\ updated.status # "normal")
                         => raised = 0
                   /\ (previous = "warning" /\ updated.status = "critical")
                         => raised = 1]_vars

----------------------------------------------------------------------------
(* Properties of the alert log, under SpecAlertLog                         *)

\* C12: the alert list of every stored blob holds at most 100 alerts.
C12_AtMost100AlertsPersisted ==
    \A key \in StorageKeys :
        storage[key] # <<>> => Len(ParsedData(storage[key][1]).alerts) <= 100

----------------------------------------------------------------------------
(* Properties of a reading analysed and saved, under SpecReading            *)

ClaimedTier(s, d) ==
    LET crisis == s >= 180 \/ d >= 120
        stage2 == s >= 160 \/ d >= 100
        stage1 == s >= 140 \/ d >= 90
        elevated == s >= 130 \/ d >= 85
        low == s < 90 \/ d < 60
    IN CASE crisis -> "hypertensive crisis"
         [] ~crisis /\ stage2 -> "stage 2 hypertension"
         [] ~crisis /\ ~stage2 /\ stage1 -> "stage 1 hypertension"
         [] ~crisis /\ ~stage2 /\ ~stage1 /\ elevated -> "elevated"
         [] ~crisis /\ ~stage2 /\ ~stage1 /\ ~elevated /\ low -> "lower than normal"
         [] OTHER -> "within normal range"

\* C18: the blood pressure sentence of the explanation is that of the first
\* tier that matches, in the order crisis (>= 180 or >= 120), stage 2
\* (>= 160 or >= 100), stage 1 (>= 140 or >= 90), elevated (>= 130 or >= 85),
\* hypotensive (< 90 or < 60), normal; a high tier on one component wins
\* over a hypotensive value on the other.
C18_FirstMatchingTier ==
    analysisResult.done =>
        LET s == reading.bloodPressureSystolic
            d == reading.bloodPressureDiastolic
        IN /\ analysisResult.analysis.bp = <<ClaimedTier(s, d), s, d>>
           /\ ((s < 90 \/ d < 60) /\ (s >= 130 \/ d >= 85))
                 => analysisResult.analysis.bp[1] # "lower than normal"

\* A hypotensive systolic with a stage-1 diastolic reads as stage 1
C18_Witness ==
    /\ analysisResult.done
    /\ reading.bloodPressureSystolic = 89
    /\ reading.bloodPressureDiastolic = 90
    /\ analysisResult.analysis.bp[1] = "stage 1 hypertension"

\* C20: once every write a save started has completed, in whatever order,
\* the blob under the user's key decodes to the config, history and alerts
\* held in memory.
C20_LastWriteWins ==
    (healthHistory # <<>> /\ pendingWrites = <<>>)
        => /\ storage[StorageKey(userId)] # <<>>
           /\ LET parsedData == ParsedData(storage[StorageKey(userId)][1])
              IN /\ parsedData.config = monitoringConfig
                 /\ ReviveItems(parsedData.history) = healthHistory
                 /\ ReviveItems(parsedData.alerts) = alerts

\* C24: with the status of analyzeHealthData passed to saveHealthData, no
\* metric of the alert raised is rated above the alert's overall status.
C24_NoMetricAboveOverall ==
    \A i \in 1..Len(alerts) :
        \A m \in DOMAIN alerts[i].metrics :
            severity[alerts[i].metrics[m].status] <= severity[alerts[i].status]

----------------------------------------------------------------------------
(* Further properties of the monitoring session, under SpecMonitor          *)

\* C25: the completion of the load of the session's user leaves in the
\* history every entry saved under that user.
C25_SavedEntryStays ==
    [][\A i \in 1..Len(pendingLoads) :
          (/\ pendingLoads[i].phase = "resolved"
           /\ pendingLoads[i].key = StorageKey(userId)
           /\ LoadResume(i))
             => \A k \in 1..Len(healthHistory) :
                   healthHistory[k] \in savedUnder[userId].history
                      => \E j \in 1..Len(healthHistory') :
                            healthHistory'[j] = healthHistory[k]]_vars

\* C26: the alerts of the log have distinct ids. The clock of the model
\* starts again at 0, so the alert an earlier run left is not compared.
C26_DistinctAlertIds ==
    \A i, j \in 1..Len(alerts) :
        (/\ i < j
         /\ Unseen(alerts[i]) # Unseen(PreviousAlerts[1])
         /\ Unseen(alerts[j]) # Unseen(PreviousAlerts[1]))
            => alerts[i].id # alerts[j].id

----------------------------------------------------------------------------
(* Further properties of analyzeHealthData, under SpecAnalysis              *)

\* C27: for heart rate, blood pressure, temperature and oxygen, the sentence
\* of the explanation is the within-normal-range one iff the metric (both
\* components, for blood pressure) was assessed normal.
C27_ExplanationAgreesWithMetrics ==
    analysisResult.done =>
        LET a == analysisResult.analysis
            m == analysisResult.metrics
        IN /\ (a.hr[1] = "within normal range") <=> (m.heartRate.status = "normal")
           /\ (a.bp[1] = "within normal range")
                 <=> (/\ m.bloodPressureSystolic.status = "normal"
                      /\ m.bloodPressureDiastolic.status = "normal")
           /\ (a.temp[1] = "within normal range") <=> (m.temperature.status = "normal")
           /\ (a.o2[1] = "within normal range") <=> (m.oxygenLevel.status = "normal")

----------------------------------------------------------------------------
(* Properties of the alert's metrics map, under SpecAlertMetrics            *)

\* C23: the metrics map of an alert raised by a save has an entry for heart
\* rate, temperature and oxygen iff the flag of the metric is set in the
\* config at that time, the systolic and diastolic entries iff the blood
\* pressure flag is set, no other entry, and each value is the reading's.
C23_MetricsMapFollowsConfig ==
    [][(ret'.op = "saveHealthData" /\ Len(alerts') = Len(alerts) + 1)
          => LET metrics == alerts'[Len(alerts')].metrics
                 data == healthHistory'[Len(healthHistory')].data
                 enabled == monitoringConfig.metrics
             IN /\ ("heartRate" \in DOMAIN metrics) <=> enabled.heartRate
                /\ ("temperature" \in DOMAIN metrics) <=> enabled.temperature
                /\ ("oxygenLevel" \in DOMAIN metrics) <=> enabled.oxygenLevel
                /\ ("bloodPressureSystolic" \in DOMAIN metrics) <=> enabled.bloodPressure
                /\ ("bloodPressureDiastolic" \in DOMAIN metrics) <=> enabled.bloodPressure
                /\ DOMAIN metrics \subseteq DOMAIN data
                /\ \A m \in DOMAIN metrics : metrics[m].value = data[m]]_vars

\* An alert raised with only the temperature and the weight flag set
C23_Witness ==
    /\ ret.op = "saveHealthData"
    /\ Len(alerts) = 1
    /\ monitoringConfig.metrics.weight
    /\ DOMAIN alerts[1].metrics = {"temperature"}
    /\ alerts[1].metrics.temperature.value = 382

----------------------------------------------------------------------------
(* Properties of login, lockout and the session, under SpecSecurity         *)

\* The account holds a lock that has not expired at time t
LockedAt(locks, t, email) == locks[email] # NoLock /\ t <= locks[email]

\* C21: an account becomes locked exactly when its failure count reaches 5;
\* a login of a locked account fails at once, starts nothing and leaves user
\* and session; a login with valid credentials deletes count and lock.
C21_LockedExactlyAtFive ==
    [][\A email \in Emails :
          /\ (~LockedAt(lockedAccounts, clock, email)
                /\ LockedAt(lockedAccounts', clock', email))
                => /\ failedAttempts[email] = LOCK_THRESHOLD - 1
                   /\ failedAttempts'[email] = LOCK_THRESHOLD
          /\ (failedAttempts[email] = LOCK_THRESHOLD - 1
                /\ failedAttempts'[email] = LOCK_THRESHOLD)
                => LockedAt(lockedAccounts', clock', email)
          /\ \A valid \in BOOLEAN :
                (LockedAt(lockedAccounts, clock, email) /\ LoginStart(email, valid))
                   => /\ ret' = LoginResult(FALSE)
                      /\ UNCHANGED <<pendingLogins, currentUser, currentSession,
                                     sessionItem, failedAttempts>>
          /\ \A i \in 1..Len(pendingLogins) :
                (/\ pendingLogins[i].email = email
                 /\ pendingLogins[i].phase = "validateCredentials"
                 /\ pendingLogins[i].valid
                 /\ LoginValidated(i))
                   => /\ failedAttempts'[email] = 0
                      /\ lockedAccounts'[email] = NoLock]_vars

\* C28: a session that is not null has a current user, the one of the session.
C28_SessionHasItsUser ==
    currentSession.present
        => /\ currentUser # NoUser
           /\ currentSession.userId = currentUser

\* C29: a store that completes while the log has room drops no event that
\* is in the stored log.
C29_NoEventLost ==
    [][\A i \in 1..Len(pendingStores) :
          (pendingStores[i].phase = "setItem" /\ StoreSetItem(i))
             => (Len(securityLogs) < 100
                   => \A k \in 1..Len(securityLogs) :
                         \E j \in 1..Len(securityLogs') :
                            securityLogs'[j] = securityLogs[k])]_vars

\* C30: a failed login of an account whose lock has expired (the count is at
\* 5 or above and no lock is in force) does not lock the account again.
C30_FreshAllowanceAfterExpiry ==
    [][\A email \in Emails :
          (/\ ~LockedAt(lockedAccounts, clock, email)
           /\ failedAttempts[email] >= LOCK_THRESHOLD
           /\ failedAttempts'[email] = failedAttempts[email] + 1)
             => ~LockedAt(lockedAccounts', clock', email)]_vars

----------------------------------------------------------------------------
(* Properties of the stored security log, under SpecSecurityLog             *)

====
